---- MODULE Spec2Model ----
(***************************************************************************)
(* scel2rime.py: decoder of the SCEL word-library format and emitter of a  *)
(* RIME dictionary.  The model follows main(): the argument checks, the    *)
(* 12-byte header check, the pinyin-table loop, the word-table loop (one   *)
(* step per group header and one per word record), and the filter / sort / *)
(* write of generate_rime_yaml.                                            *)
(*                                                                         *)
(* Bytes are 0..255.  A Python str is a sequence of code units (chr(n) is  *)
(* one character for every n in 0..65535).  The input file is kept sparse: *)
(* its length and the bytes that were set (nz); every other byte is 0.     *)
(* py_data runs from start_py to the end of the file, so the pinyin loop   *)
(* also reads the bytes of the word table, as in the source.               *)
(***************************************************************************)
EXTENDS Integers, Sequences, FiniteSets, TLC

\* ------------------------------------------------------------------ bounds
\* Longest arbitrary byte string tried as a pinyin table.
MaxRawLen == 4
\* Longest arbitrary byte string tried as a word table.
MaxRawWordLen == 2
\* Arbitrary byte strings are drawn over 0..MaxByte.
MaxByte == 2
\* Most word records in a well-formed group.
MaxWords == 3
\* Frequencies of well-formed word records are 1..MaxFreq.
MaxFreq == 2
\* Extension-block lengths tried in a single word record are 0..MaxExt.
MaxExt == 3

\* ------------------------------------------------------- program constants
Magic == <<64, 21, 0, 0, 68, 67, 83, 1, 1, 0, 0, 0>>
start_py == 5440
start_chinese == 9768

VARIABLES
    has_args,     \* both positional arguments were given
    file_exists,  \* os.path.exists(input_file)
    ext_ok,       \* input_file.endswith('.scel')
    data,         \* the file contents: [len, nz]
    pc,           \* position in main / parse_scel
    ret,          \* what parse_scel returned: "unset", "None" or "list"
    pos,          \* cursor of the running table loop
    py_table,     \* index -> pinyin string
    py_count,
    py_faults,    \* times the except branch of the pinyin loop ran
    entries,      \* sequence of <<word, pinyin, freq>>
    entry_count,
    error_count,
    same_left,    \* iterations left of `for _ in range(same_count)`
    pinyin,       \* the group's joined pinyin
    freq_at,      \* value of pos when the last frequency was read, -1 if none
    ext_len,      \* ext_len of the last word record
    filtered_entries,
    args,         \* [min_freq, min_length, max_length] given to generate_rime_yaml
    output,       \* "unwritten", "complete" or "truncated"
    exit_code     \* -1 while running

vars == <<has_args, file_exists, ext_ok, data, pc, ret, pos, py_table, py_count,
          py_faults, entries, entry_count, error_count, same_left, pinyin,
          freq_at, ext_len, filtered_entries, args, output, exit_code>>

Min(a, b) == IF a < b THEN a ELSE b
Max(a, b) == IF a > b THEN a ELSE b

\* ------------------------------------------------------------ bytes, slices
\* data[i] of the sparse file d
ByteAt(d, i) == IF i \in DOMAIN d.nz THEN d.nz[i] ELSE 0

\* d[start:] as a view: where it starts in d and how long it is
SubBuffer(d, start) == [base |-> start, length |-> Max(d.len - start, 0)]

\* buf[lo:hi] of a view buf of d (Python clips a slice to the buffer)
Slice(d, buf, lo, hi) ==
    LET h == Min(hi, buf.length)
    IN  IF lo >= h THEN << >>
        ELSE [k \in 1..(h - lo) |-> ByteAt(d, buf.base + lo + k - 1)]

\* struct.unpack('<H', b) raises unless b has exactly 2 bytes
unpack_ok(b) == Len(b) = 2
unpack(b) == b[1] + 256 * b[2]

\* a 2-byte read at p succeeds
CanRead(d, buf, p) == unpack_ok(Slice(d, buf, p, p + 2))
ReadU16(d, buf, p) == unpack(Slice(d, buf, p, p + 2))

\* byte2str: one character per complete 2-byte unit, a trailing byte is skipped
\* (s is the span b, evaluated once)
byte2str(b) ==
    CHOOSE str \in {[i \in 1..(Len(s) \div 2) |-> s[2 * i - 1] + 256 * s[2 * i]] : s \in {b}} :
        TRUE

\* ------------------------------------------------------------- input files
\* little-endian u16, the inverse of unpack
le16(n) == <<n % 256, n \div 256>>

\* UTF-16LE bytes of a string of code units
StrBytes(s) ==
    [k \in 1..(2 * Len(s)) |->
        IF k % 2 = 1 THEN s[(k + 1) \div 2] % 256 ELSE s[k \div 2] \div 256]

RECURSIVE Concat(_)
Concat(ss) == IF ss = << >> THEN << >> ELSE Head(ss) \o Concat(Tail(ss))

\* pinyin record: index, byte length, text
PyRecord(index, str) == le16(index) \o le16(2 * Len(str)) \o StrBytes(str)

\* word record: word_len, word, ext_len, then an extension block of extl bytes
\* that starts with the frequency
WordRecordBytes(word, freq, extl) ==
    le16(2 * Len(word)) \o StrBytes(word) \o le16(extl)
        \o [k \in 1..extl |-> IF k <= 2 THEN le16(freq)[k] ELSE 0]

\* word group: same_count, index-table byte length, indices, word records
GroupBytes(same_count, idxs, recs) ==
    le16(same_count) \o le16(2 * Len(idxs))
        \o Concat([k \in 1..Len(idxs) |-> le16(idxs[k])]) \o Concat(recs)

Place(seq, at) == [i \in at..(at + Len(seq) - 1) |-> seq[i - at + 1]]

SeqsUpTo(S, n) == UNION {[1..k -> S] : k \in 0..n}

RawStrings == SeqsUpTo(0..MaxByte, MaxRawLen)
RawWordTables == SeqsUpTo(0..MaxByte, MaxRawWordLen)

P_ab == PyRecord(1, <<97>>) \o PyRecord(2, <<98>>)

\* two well-formed pinyin records with 3 garbage bytes between them
GarbledPairs ==
    {PyRecord(1, <<97>>) \o g \o PyRecord(2, <<98>>) : g \in [1..3 -> 0..MaxByte]}

\* tables that set index 1: to a syllable, and to an empty string by a record
\* of length 0 and by one of length 1
PyTables ==
    {P_ab, PyRecord(1, <<97>>), PyRecord(1, << >>), le16(1) \o le16(1) \o <<97>>}

\* a file that holds only a header of n bytes
HeaderFile(hdr) == [len |-> Len(hdr), nz |-> Place(hdr, 0)]

\* a file that ends inside the pinyin table: py_data = P, chinese_data is empty
ShortFile(hdr, P) ==
    [len |-> start_py + Len(P), nz |-> Place(hdr, 0) @@ Place(P, start_py)]

\* a file with both tables: one long pinyin record of zeros, with index 1,
\* spans the bytes from start_py to the table P, which ends where the word
\* table W starts
LongFile(hdr, P, W) ==
    LET gap == start_chinese - start_py - 4 - Len(P)
    IN  [len |-> start_chinese + Len(W),
         nz  |-> Place(hdr, 0) @@ Place(le16(1) \o le16(gap), start_py)
                 @@ Place(P, start_chinese - Len(P)) @@ Place(W, start_chinese)]

BadMagics ==
    {[Magic EXCEPT ![k] = (Magic[k] + 1) % 256] : k \in 1..Len(Magic)}

\* the word of the k-th record of a well-formed group: one character when k
\* is odd, two when it is even, and different for every k
SortWord(k) == IF k % 2 = 1 THEN <<64 + k>> ELSE <<64 + k, 64 + k>>

\* groups of up to MaxWords well-formed records, every choice of frequencies
SortTables ==
    {GroupBytes(Len(fs), <<1, 2>>,
                [k \in 1..Len(fs) |-> WordRecordBytes(SortWord(k), fs[k], 2)]) :
        fs \in SeqsUpTo(1..MaxFreq, MaxWords)}

OddRecs ==
    {WordRecordBytes(w, 1, e) : w \in {<< >>, <<65>>}, e \in 0..MaxExt}

GoodRec == WordRecordBytes(<<66>>, 2, 2)

\* groups whose count, index table and records need not agree
OddTables ==
    {GroupBytes(n, idxs, recs) :
        n \in 0..2, idxs \in {<< >>, <<1>>, <<3>>},
        recs \in {<< >>} \cup {<<r>> : r \in OddRecs} \cup {<<r, GoodRec>> : r \in OddRecs}}

\* groups of n good records that name index 1, once or twice
PlainTables ==
    {GroupBytes(n, idxs, [k \in 1..n |-> GoodRec]) :
        n \in 1..2, idxs \in {<<1>>, <<1, 1>>}}

Files ==
    {HeaderFile(SubSeq(Magic, 1, n)) : n \in 0..Len(Magic)}
    \cup {HeaderFile(h) : h \in BadMagics}
    \cup {LongFile(h, P_ab, GroupBytes(1, <<1>>, <<GoodRec>>)) : h \in BadMagics}
    \cup {ShortFile(Magic, P) : P \in RawStrings \cup GarbledPairs \cup {P_ab}}
    \cup {LongFile(Magic, P_ab, W) : W \in SortTables \cup OddTables \cup RawWordTables}
    \cup {LongFile(Magic, P, W) : P \in PyTables, W \in PlainTables}

\* ------------------------------------------------------------ parse_scel
\* variant: magic.startswith(data[:12]), which lets a shorter buffer through
HeaderOK_prefix(d) ==
    LET h == Slice(d, SubBuffer(d, 0), 0, Len(Magic))
    IN  h = SubSeq(Magic, 1, Len(h))
\* data[:12] == magic
HeaderOK(d) == Slice(d, SubBuffer(d, 0), 0, Len(Magic)) = Magic

py_data(d) == SubBuffer(d, start_py)
chinese_data(d) == SubBuffer(d, start_chinese)

\* dict assignment table[k] = v
Put(table, k, v) ==
    [x \in DOMAIN table \cup {k} |-> IF x = k THEN v ELSE table[x]]

\* variant: the cursor goes back to 1 byte past where the iteration began
FaultPos_rewind(start, at) == start + 1
\* variant: the except branch without `pos += 1`
FaultPos_stuck(start, at) == at
\* except branch: the cursor was left at `at` by the reads that succeeded in
\* the iteration that began at `start`; pos += 1
FaultPos(start, at) == at + 1

\* one iteration of the pinyin loop at cursor p
PyIter(d, buf, p, table) ==
    IF ~CanRead(d, buf, p)
    THEN [ok |-> FALSE, pos |-> FaultPos(p, p), table |-> table]
    ELSE IF ~CanRead(d, buf, p + 2)
    THEN [ok |-> FALSE, pos |-> FaultPos(p, p + 2), table |-> table]
    ELSE LET index  == ReadU16(d, buf, p)
             py_len == ReadU16(d, buf, p + 2)
             py_str == byte2str(Slice(d, buf, p + 4, p + 4 + py_len))
         IN  [ok |-> TRUE, pos |-> p + 4 + py_len, table |-> Put(table, index, py_str)]

\* for _ in range(n): read one pinyin index; stops at the read that raises
RECURSIVE ReadIndices(_, _, _, _, _)
ReadIndices(d, buf, p, n, acc) ==
    IF n = 0 THEN [ok |-> TRUE, pos |-> p, indices |-> acc]
    ELSE IF ~CanRead(d, buf, p) THEN [ok |-> FALSE, pos |-> p, indices |-> acc]
    ELSE ReadIndices(d, buf, p + 2, n - 1, Append(acc, ReadU16(d, buf, p)))

\* the strings of the indices the table knows, in index order
RECURSIVE Resolve(_, _)
Resolve(indices, table) ==
    IF indices = << >> THEN << >>
    ELSE IF Head(indices) \in DOMAIN table
         THEN <<table[Head(indices)]>> \o Resolve(Tail(indices), table)
         ELSE Resolve(Tail(indices), table)

\* ' '.join(parts)
RECURSIVE Join(_)
Join(parts) ==
    IF parts = << >> THEN << >>
    ELSE IF Len(parts) = 1 THEN Head(parts)
    ELSE Head(parts) \o <<32>> \o Join(Tail(parts))

\* bytes skipped per word of a group whose pinyin did not resolve
SkipPerWord == 14

\* the head of one word group at cursor p, up to the first word record
GroupHeader(d, buf, p, table) ==
    IF ~CanRead(d, buf, p)
    THEN [kind |-> "fault", pos |-> FaultPos(p, p)]
    ELSE IF ~CanRead(d, buf, p + 2)
    THEN [kind |-> "fault", pos |-> FaultPos(p, p + 2)]
    ELSE LET same_count   == ReadU16(d, buf, p)
             py_table_len == ReadU16(d, buf, p + 2)
             rd           == ReadIndices(d, buf, p + 4, py_table_len \div 2, << >>)
             pinyin_parts == Resolve(rd.indices, table)
         IN  IF ~rd.ok THEN [kind |-> "fault", pos |-> FaultPos(p, rd.pos)]
             ELSE IF pinyin_parts = << >>
             THEN [kind |-> "skip", pos |-> rd.pos + same_count * SkipPerWord]
             ELSE [kind |-> "words", pos |-> rd.pos, same_count |-> same_count,
                   pinyin |-> Join(pinyin_parts)]

\* one word record at cursor p
WordRecord(d, buf, p) ==
    IF ~CanRead(d, buf, p)
    THEN [ok |-> FALSE, pos |-> FaultPos(p, p)]
    ELSE LET word_len == ReadU16(d, buf, p)
             word     == byte2str(Slice(d, buf, p + 2, p + 2 + word_len))
             p2       == p + 2 + word_len
         IN  IF ~CanRead(d, buf, p2)
             THEN [ok |-> FALSE, pos |-> FaultPos(p, p2)]
             ELSE IF ~CanRead(d, buf, p2 + 2)
             THEN [ok |-> FALSE, pos |-> FaultPos(p, p2 + 2)]
             ELSE [ok |-> TRUE, pos |-> p2 + 2 + ReadU16(d, buf, p2),
                   word |-> word, freq |-> ReadU16(d, buf, p2 + 2),
                   freq_at |-> p2 + 2, ext_len |-> ReadU16(d, buf, p2)]

\* if word and 1 <= len(word) <= 8
MaxWordChars == 8
WordKept(word) == word # << >> /\ 1 <= Len(word) /\ Len(word) <= MaxWordChars

\* ---------------------------------------------------- generate_rime_yaml
\* variant: freq > min_freq
Keep_strict(e, a) ==
    e[3] > a.min_freq /\ a.min_length <= Len(e[1]) /\ Len(e[1]) <= a.max_length
\* freq >= min_freq and min_length <= len(word) <= max_length
Keep(e, a) ==
    e[3] >= a.min_freq /\ a.min_length <= Len(e[1]) /\ Len(e[1]) <= a.max_length

Filter(es, a) == SelectSeq(es, LAMBDA e : Keep(e, a))

\* variant: a descending sort that puts the later of two equal keys first
StaysBefore_unstable(x, e) == x[3] > e[3]
\* x, already placed, stays in front of the later element e
StaysBefore(x, e) == x[3] >= e[3]

RECURSIVE Insert(_, _)
Insert(sorted, e) ==
    IF sorted = << >> THEN <<e>>
    ELSE IF StaysBefore(Head(sorted), e)
         THEN <<Head(sorted)>> \o Insert(Tail(sorted), e)
         ELSE <<e>> \o sorted

\* list.sort(key=freq, reverse=True): descending and stable
RECURSIVE SortFrom(_, _)
SortFrom(es, acc) ==
    IF es = << >> THEN acc ELSE SortFrom(Tail(es), Insert(acc, Head(es)))
SortDesc(es) == SortFrom(es, << >>)

\* ------------------------------------------------------------------ main
ArgSets ==
    [min_freq : {1, 2}, min_length : {1, 2}, max_length : {1, 8}]

NoArgs == [min_freq |-> 1, min_length |-> 1, max_length |-> 8]

Init ==
    /\ data \in Files
    /\ has_args \in BOOLEAN
    /\ file_exists \in BOOLEAN
    /\ ext_ok \in BOOLEAN
    \* the file is read only when the argument checks pass
    /\ (has_args /\ file_exists /\ ext_ok) \/ data = HeaderFile(Magic)
    /\ pc = "start"
    /\ ret = "unset"
    /\ pos = 0
    /\ py_table = << >>
    /\ py_count = 0
    /\ py_faults = 0
    /\ entries = << >>
    /\ entry_count = 0
    /\ error_count = 0
    /\ same_left = 0
    /\ pinyin = << >>
    /\ freq_at = -1
    /\ ext_len = 0
    /\ filtered_entries = << >>
    /\ args = NoArgs
    /\ output = "unwritten"
    /\ exit_code = -1

decoderVars == <<pos, py_table, py_count, py_faults, entries, entry_count,
                 error_count, same_left, pinyin, freq_at, ext_len>>
inputVars == <<has_args, file_exists, ext_ok, data>>
writeVars == <<filtered_entries, args, output>>

\* main, the argument checks: sys.exit(1) on a missing argument, a missing
\* file or a wrong extension
Preflight ==
    /\ pc = "start"
    /\ IF has_args /\ file_exists /\ ext_ok
       THEN pc' = "parse" /\ exit_code' = exit_code
       ELSE pc' = "done" /\ exit_code' = 1
    /\ UNCHANGED <<inputVars, decoderVars, writeVars, ret>>

\* parse_scel, the header check: return None on a bad magic
CheckHeader ==
    /\ pc = "parse"
    /\ IF HeaderOK(data)
       THEN pc' = "pinyin" /\ ret' = ret
       ELSE pc' = "main" /\ ret' = "None"
    /\ UNCHANGED <<inputVars, decoderVars, writeVars, exit_code>>

\* one iteration of `while pos < length` over py_data
PinyinRecord ==
    /\ pc = "pinyin"
    /\ pos < py_data(data).length
    /\ \E r \in {PyIter(data, py_data(data), pos, py_table)} :
           /\ pos' = r.pos
           /\ py_table' = r.table
           /\ py_count' = IF r.ok THEN py_count + 1 ELSE py_count
           /\ py_faults' = IF r.ok THEN py_faults ELSE py_faults + 1
    /\ UNCHANGED <<inputVars, writeVars, pc, ret, exit_code, entries, entry_count,
                   error_count, same_left, pinyin, freq_at, ext_len>>

\* the pinyin loop ends; the word loop starts at pos = 0
PinyinDone ==
    /\ pc = "pinyin"
    /\ pos >= py_data(data).length
    /\ pc' = "group"
    /\ pos' = 0
    /\ UNCHANGED <<inputVars, writeVars, ret, exit_code, py_table, py_count,
                   py_faults, entries, entry_count, error_count, same_left,
                   pinyin, freq_at, ext_len>>

\* one iteration of `while pos < length` over chinese_data, up to the first
\* word record of the group
GroupStep ==
    /\ pc = "group"
    /\ pos < chinese_data(data).length
    /\ \E g \in {GroupHeader(data, chinese_data(data), pos, py_table)} :
           /\ pos' = g.pos
           /\ error_count' = IF g.kind = "fault" THEN error_count + 1 ELSE error_count
           /\ same_left' = IF g.kind = "words" THEN g.same_count ELSE 0
           /\ pinyin' = IF g.kind = "words" THEN g.pinyin ELSE << >>
           /\ pc' = IF g.kind = "words" /\ g.same_count > 0 THEN "word" ELSE "group"
    /\ freq_at' = -1
    /\ UNCHANGED <<inputVars, writeVars, ret, exit_code, py_table, py_count,
                   py_faults, entries, entry_count, ext_len>>

\* one iteration of `for _ in range(same_count)`
WordStep ==
    /\ pc = "word"
    /\ \E w \in {WordRecord(data, chinese_data(data), pos)} :
           /\ pos' = w.pos
           /\ IF w.ok
              THEN /\ entries' = IF WordKept(w.word)
                                 THEN Append(entries, <<w.word, pinyin, w.freq>>)
                                 ELSE entries
                   /\ entry_count' = IF WordKept(w.word) THEN entry_count + 1
                                     ELSE entry_count
                   /\ freq_at' = w.freq_at
                   /\ ext_len' = w.ext_len
                   /\ same_left' = same_left - 1
                   /\ pc' = IF same_left = 1 THEN "group" ELSE "word"
                   /\ UNCHANGED error_count
              ELSE /\ error_count' = error_count + 1
                   /\ freq_at' = -1
                   /\ same_left' = 0
                   /\ pc' = "group"
                   /\ UNCHANGED <<entries, entry_count, ext_len>>
    /\ UNCHANGED <<inputVars, writeVars, ret, exit_code, py_table, py_count,
                   py_faults, pinyin>>

\* the word loop ends: return entries
WordsDone ==
    /\ pc = "group"
    /\ pos >= chinese_data(data).length
    /\ pc' = "main"
    /\ ret' = "list"
    /\ UNCHANGED <<inputVars, decoderVars, writeVars, exit_code>>

\* main, `if entries:` is false: print the failure and fall off the end
NoEntries ==
    /\ pc = "main"
    /\ ret = "None" \/ entries = << >>
    /\ pc' = "done"
    /\ exit_code' = 0
    /\ UNCHANGED <<inputVars, decoderVars, writeVars, ret>>

\* main, `if entries:` is true: generate_rime_yaml filters, sorts and writes;
\* main prints the outcome and falls off the end
Generate ==
    /\ pc = "main"
    /\ ret = "list" /\ entries # << >>
    /\ \E a \in ArgSets, result \in {"complete", "unwritten", "truncated"} :
          /\ args' = a
          /\ filtered_entries' = SortDesc(Filter(entries, a))
          /\ output' = result
    /\ pc' = "done"
    /\ exit_code' = 0
    /\ UNCHANGED <<inputVars, decoderVars, ret>>

Next ==
    \/ Preflight
    \/ CheckHeader
    \/ PinyinRecord
    \/ PinyinDone
    \/ GroupStep
    \/ WordStep
    \/ WordsDone
    \/ NoEntries
    \/ Generate

Spec == Init /\ [][Next]_vars

\* the interpreter runs the program to its end
FairSpec == Spec /\ WF_vars(Next)

\* ---------------------------------------------------------------- claims
\* the first 12 bytes of the file, fewer when the file is shorter
First12(d) == [k \in 1..Min(12, d.len) |-> ByteAt(d, k - 1)]

PyLength == py_data(data).length
WordLength == chinese_data(data).length

\* generate_rime_yaml has run
Generated == pc = "done" /\ ret = "list" /\ entries # << >>

\* the filter condition, as the claim states it
Qualifies(e) ==
    e[3] >= args.min_freq /\ args.min_length <= Len(e[1]) /\ Len(e[1]) <= args.max_length

Count(s, e) == Cardinality({i \in 1..Len(s) : s[i] = e})

GarbledFiles == {ShortFile(Magic, P) : P \in GarbledPairs}

\* C1: every entry the word decoder appends has a non-empty pinyin string,
\* also when the mapping holds an empty string and a group names only it.
C1_PinyinNonEmpty == \A i \in 1..Len(entries) : entries[i][2] # << >>

\* C2: with 3 garbage bytes between two well-formed pinyin records, once the
\* pinyin loop has ended the second record is in the mapping, the garbage was
\* counted as faults and added no entry of its own.
C2_Resynchronizes ==
    (data \in GarbledFiles /\ pc \in {"group", "word", "main", "done"})
        => /\ 2 \in DOMAIN py_table
           /\ py_table[2] = <<98>>
           /\ DOMAIN py_table = {1, 2}
           /\ py_faults > 0

\* a read of the pinyin record at the cursor underflows the remaining bytes:
\* the index, the length field, or the content
PyUnderflow ==
    \/ pos + 4 > PyLength
    \/ pos + 4 + ReadU16(data, py_data(data), pos + 2) > PyLength

\* C3: a pinyin record whose reads underflow records no entry and leaves the
\* cursor exactly 1 byte past where the record began.
C3_UnderflowAdvancesOne ==
    [][(pc = "pinyin" /\ pos < PyLength /\ PyUnderflow)
          => (pos' = pos + 1 /\ py_table' = py_table)]_vars

\* C4: the exit code is 0 only when a dictionary was written completely, and
\* 1 on a bad magic, on no entries and on a failed write.
C4_ExitCode == pc = "done" => (exit_code = 0 <=> output = "complete")

\* C5: the buffer is accepted exactly when its first 12 bytes are the magic
\* signature; on rejection nothing is decoded and no output is written.
C5_HeaderValidation ==
    /\ pc \in {"pinyin", "group", "word"} => First12(data) = Magic
    /\ ret = "list" => First12(data) = Magic
    /\ ret = "None" =>
          /\ First12(data) # Magic
          /\ pos = 0 /\ py_table = << >> /\ py_count = 0 /\ py_faults = 0
          /\ entries = << >> /\ entry_count = 0 /\ error_count = 0
          /\ output = "unwritten"
    /\ (pc = "main" /\ First12(data) = Magic) => ret = "list"

C5_Witness ==
    /\ pc = "done" /\ ret = "None"
    /\ data.len > start_chinese
    /\ output = "unwritten"

\* C6: the sequence generate_rime_yaml writes holds exactly the entries that
\* pass the filter, each as often as in the input, and is in descending order
\* of frequency.
C6_FilterSort ==
    Generated =>
        /\ \A e \in {entries[i] : i \in 1..Len(entries)} :
              Count(filtered_entries, e) = IF Qualifies(e) THEN Count(entries, e) ELSE 0
        /\ \A i \in 1..Len(filtered_entries) :
              \E j \in 1..Len(entries) : entries[j] = filtered_entries[i]
        /\ \A i \in 1..(Len(filtered_entries) - 1) :
              filtered_entries[i][3] >= filtered_entries[i + 1][3]

C6_Witness ==
    /\ Generated /\ output = "complete"
    /\ Len(entries) = 3 /\ Len(filtered_entries) = 2
    /\ filtered_entries[1] = entries[3]
    /\ filtered_entries[1][3] > filtered_entries[2][3]
    /\ entries[1][3] = args.min_freq

\* C7: entries of equal frequency keep, in the sorted sequence, the order
\* they had in the filtered sequence.
C7_Stable ==
    Generated =>
        \A f \in {entries[i][3] : i \in 1..Len(entries)} :
            SelectSeq(filtered_entries, LAMBDA e : e[3] = f)
                = SelectSeq(entries, LAMBDA e : e[3] = f /\ Qualifies(e))

C7_Witness ==
    /\ Generated
    /\ Len(entries) = 3 /\ Len(filtered_entries) = 3
    /\ entries[1][3] < entries[2][3] /\ entries[2][3] = entries[3][3]
    /\ filtered_entries = <<entries[2], entries[3], entries[1]>>

\* an iteration of one of the two table loops is about to run
DecoderIteration ==
    \/ pc = "pinyin" /\ pos < PyLength
    \/ pc = "group" /\ pos < WordLength
    \/ pc = "word"

\* C8: every iteration of either table loop moves the cursor forward, and
\* each loop stops with the cursor at or past the end of its sub-buffer.
C8_Termination ==
    /\ [][DecoderIteration => pos' > pos]_vars
    /\ (pc = "pinyin") ~> (pc = "pinyin" /\ pos >= PyLength)
    /\ (pc \in {"group", "word"}) ~> (pc = "group" /\ pos >= WordLength)

\* both loops stopped, the word loop after a group of no words, a group that
\* was skipped or a fault
C8_Witness ==
    /\ pc = "main" /\ ret = "list"
    /\ py_faults = 1 /\ error_count = 1
    /\ pos >= WordLength

\* C9: the two bytes read as the frequency of a word record lie before the
\* cursor once it has passed the extension block.
C9_FreqInsideExtension ==
    (pc \in {"group", "word"} /\ freq_at >= 0) => freq_at + 2 <= pos

\* C10: either table loop faults at most once, and after a fault the cursor
\* is at or past the end, so nothing more is parsed.
C10_AtMostOneFault ==
    /\ py_faults <= 1
    /\ error_count <= 1
    /\ (pc = "pinyin" /\ py_faults = 1) => pos >= PyLength
    /\ (pc \in {"group", "word"} /\ error_count = 1) =>
          (pc = "group" /\ pos >= WordLength)

C10_Witness ==
    /\ pc = "done"
    /\ py_faults = 1 /\ error_count = 1
    /\ py_count >= 3

====
